---- MODULE Spec2Model ----
(***************************************************************************)
(* rs3_analyzer: the analytical pipeline of the market analyzer.           *)
(*                                                                         *)
(*   stats.rs  build_stats     observations -> one ItemStats per item      *)
(*   flips.rs  analyze         ItemStats x tax -> FlipResult               *)
(*   ui.rs     RS3App::load_data  load, build_stats, analyze each item     *)
(*   ui.rs     RS3App             items, filtered_items, loaded, filters   *)
(*                                                                         *)
(* Specifications.  Spec: date-ordered observations, build_stats, then     *)
(* analyze per item.  SpecAnyOrder: the same on observations that are not  *)
(* in date order.  SpecAnalyze: analyze on any ItemStats.  SpecHelpers:    *)
(* one call of quantile, remove_outliers, calculate_trend, price_trend or  *)
(* build_stats on one item.  SpecApp: the RS3App from new() on, under      *)
(* scans that succeed, fail or panic and the handlers of the filter panel. *)
(*                                                                         *)
(* Numbers.  Prices and volumes are i32 in the observations and are cast   *)
(* to f64 exactly, so every price series holds integer-valued floats and   *)
(* is carried as a sequence of integers.  The tax rate is carried as a     *)
(* whole percentage t (tax = t/100).  Quantities that are not integers     *)
(* are carried exactly: net as a mixed number [w, f] = w + f/100 with      *)
(* 0 <= f < 100, ratios as [n, d] = n/d with d > 0.  A comparison          *)
(* a * p < b * q is evaluated exactly by MulLess.  i32 is 32 bits wide:    *)
(* casts saturate (AsI32), saturating_add saturates (SatAdd) and sell-buy  *)
(* overflows (SubOverflows) as the build decides (overflow_checks).        *)
(* The rounding error of the f64 operations themselves is not carried: a   *)
(* quotient is compared and truncated at its exact value.                  *)
(*                                                                         *)
(* Records.  ItemSnapshot is carried without name and ge_limit, ItemStats  *)
(* without name, std_dev and ge_limit: neither build_stats nor analyze     *)
(* reads them for anything but copying.  The notes string is carried as    *)
(* the tuple of the values it is formatted from.                           *)
(***************************************************************************)
EXTENDS Integers, Sequences, FiniteSets, TLC

VARIABLES
    pc,               \* position of the caller: what has run so far
    overflow_checks,  \* build profile: TRUE = arithmetic overflow panics
    snaps,            \* the observation sequence load_snapshots returned
    stats,            \* sequence of ItemStats (build_stats' result / the inputs)
    tax,              \* tax rate, in percent
    flips,            \* flips[i]: outcome of analyze(stats[i], tax)
    call,             \* one call of a helper or of a handler of RS3App, or <<>>
    app               \* the RS3App: loaded, items, filtered_items and settings

vars == <<pc, overflow_checks, snaps, stats, tax, flips, call, app>>

-----------------------------------------------------------------------------
(* i32 and f64 arithmetic                                                  *)

I32_MAX == 2147483647
I32_MIN == -I32_MAX - 1

\* f64 -> i32 `as` cast of an integer-valued float: saturates at the bounds.
AsI32(x) == IF x > I32_MAX THEN I32_MAX ELSE IF x < I32_MIN THEN I32_MIN ELSE x

\* variant: wrapping_add in place of saturating_add
SatAddWrapping(a, b) ==
    IF b > 0 /\ a > I32_MAX - b THEN (a + I32_MIN) + (b + I32_MIN)
    ELSE IF b < 0 /\ a < I32_MIN - b THEN (a - I32_MIN) + (b - I32_MIN)
    ELSE a + b

\* i32::saturating_add
SatAdd(a, b) ==
    IF b > 0 /\ a > I32_MAX - b THEN I32_MAX
    ELSE IF b < 0 /\ a < I32_MIN - b THEN I32_MIN
    ELSE a + b

\* i32 `a - b` leaves the i32 range
SubOverflows(a, b) ==
    \/ b < 0 /\ a > I32_MAX + b
    \/ b > 0 /\ a < I32_MIN + b

\* i32 `a - b` in a build without overflow checks: two's complement wrap
WrappingSub(a, b) ==
    IF b < 0 /\ a > I32_MAX + b THEN (a + I32_MIN) + (I32_MIN - b)
    ELSE IF b > 0 /\ a < I32_MIN + b THEN (a - I32_MIN) + ((-b) - I32_MIN)
    ELSE a - b

\* a * p < b * q, exactly, for i32 a, b and 0 <= p, q <= 16384: each product
\* is split into a high and a low part in base 2^15 = 32768.
MulHi(a, p) == (a \div 32768) * p + ((a % 32768) * p) \div 32768
MulLo(a, p) == ((a % 32768) * p) % 32768
MulLess(a, p, b, q) ==
    \/ MulHi(a, p) < MulHi(b, q)
    \/ MulHi(a, p) = MulHi(b, q) /\ MulLo(a, p) < MulLo(b, q)

\* variant: a half is rounded down
RoundHalfDown(n, d) == (2 * n + d - 1) \div (2 * d)

\* f64::round of n/d for n >= 0, d > 0: half away from zero
RoundDiv(n, d) == (2 * n + d) \div (2 * d)

RECURSIVE SumSeq(_)
SumSeq(v) == IF v = <<>> THEN 0 ELSE Head(v) + SumSeq(Tail(v))

\* the sort_by(partial_cmp) calls: ascending insertion sort
RECURSIVE Insert(_, _)
Insert(x, v) ==
    IF v = <<>> THEN <<x>>
    ELSE IF x <= Head(v) THEN <<x>> \o v
    ELSE <<Head(v)>> \o Insert(x, Tail(v))

\* variant: the sort is left out
SortNone(v) == v

RECURSIVE Sort(_)
Sort(v) == IF v = <<>> THEN <<>> ELSE Insert(Head(v), Sort(Tail(v)))

IsSorted(v) == \A i \in 1..(Len(v) - 1) : v[i] <= v[i + 1]

-----------------------------------------------------------------------------
(* flips.rs                                                                *)

\* quantile(v, q) with q = pct/100: the copy of flips.rs
quantile(v, pct) ==
    IF v = <<>> THEN 0
    ELSE v[RoundDiv((Len(v) - 1) * pct, 100) + 1]

\* FlipResult::empty(); notes is the empty string
EmptyFlipResult ==
    [score |-> 0, tier |-> "NONE", buy |-> 0, sell |-> 0, qty |-> 0,
     profit |-> 0, roi |-> [n |-> 0, d |-> 1], avg_volume |-> 0,
     notes |-> <<>>]

\* recent_median, given overall_median
recent_median(recent_prices, om) ==
    IF recent_prices # <<>> THEN quantile(recent_prices, 50) ELSE om

\* variant: && in place of ||
price_crashed_both(rm, om, oq75) ==
    MulLess(rm, 100, om, 80) /\ MulLess(rm, 100, oq75, 65)

\* recent_median < overall_median * 0.80 || recent_median < overall_q75 * 0.65
price_crashed(rm, om, oq75) ==
    MulLess(rm, 100, om, 80) \/ MulLess(rm, 100, oq75, 65)

\* recent_median > overall_median * 1.25
price_spiked(rm, om) == MulLess(om, 125, rm, 100)

\* recent_avg_all as the ratio n/d
recent_avg_all(chrono, rm) ==
    IF chrono # <<>> THEN [n |-> SumSeq(chrono), d |-> Len(chrono)]
    ELSE [n |-> rm, d |-> 1]

\* recent_avg_all < overall_q75 * 0.82
post_spike_crash(avg, oq75) == MulLess(avg.n, 100, oq75, 82 * avg.d)

recent_downtrend(chrono) ==
    IF Len(chrono) >= 6
    THEN LET mid == Len(chrono) \div 2
             first_sum == SumSeq(SubSeq(chrono, 1, mid))
             second_sum == SumSeq(SubSeq(chrono, mid + 1, Len(chrono)))
         IN  \* second_sum / (len - mid) < (first_sum / mid) * 0.90
             MulLess(second_sum, 10 * mid, first_sum, 9 * (Len(chrono) - mid))
    ELSE FALSE

\* variant: without the test on the length of the recent window
use_recent_any_len(crashed, spiked, recent_prices) == crashed \/ spiked

use_recent(crashed, spiked, recent_prices) ==
    (crashed \/ spiked) /\ Len(recent_prices) >= 10

\* variant: without the test outliers_removed > 0
use_filtered_any(ur, filtered_prices, outliers_removed) ==
    ~ur /\ filtered_prices # <<>>

use_filtered(ur, filtered_prices, outliers_removed) ==
    ~ur /\ filtered_prices # <<>> /\ outliers_removed > 0

\* which of the three series is cloned
analysis_series(ur, uf) ==
    IF ur THEN "recent" ELSE IF uf THEN "filtered" ELSE "all"

analysis_prices(s, ur, uf) ==
    IF ur THEN s.recent_prices
    ELSE IF uf THEN s.filtered_prices
    ELSE s.prices

\* variant: the working series is left as it is given
sorted_prices_as_given(v) == v

\* let mut prices = analysis_prices; prices.sort_by(..)
sorted_prices(v) == Sort(v)

\* variant: q10 on both branches
buy_q10(ur, q15, q10) == AsI32(q10)

\* (buy, sell): q.round() as i32; round is the identity on an integer-valued float
buy(ur, q15, q10) == IF ur THEN AsI32(q15) ELSE AsI32(q10)
sell(ur, q85, q90) == IF ur THEN AsI32(q85) ELSE AsI32(q90)

\* price_range = q90 - q10 is an f64: it is carried while it fits 32 bits
\* (range_fits) and is known to exceed I32_MAX otherwise, the series being sorted.
range_fits(q90, q10) == ~SubOverflows(q90, q10)

\* volatility = 0.0
volatility_is_zero(q50, q90, q10) ==
    q50 <= 0 \/ (range_fits(q90, q10) /\ q90 - q10 = 0)

\* (sell - buy) in i32, as the build computes it
gross(se, b, oc) == IF oc THEN se - b ELSE WrappingSub(se, b)

\* variant: tax_loss left out
net_no_tax(g, se, t) == [w |-> g, f |-> 0]

\* net = gross - sell * tax, as the mixed number w + f/100
net(g, se, t) ==
    [w |-> g + ((-(se * t)) \div 100), f |-> (-(se * t)) % 100]

NetNegative(x) == x.w < 0
NetPositive(x) == x.w > 0 \/ (x.w = 0 /\ x.f > 0)
NetGreater(x, k) == x.w > k \/ (x.w = k /\ x.f > 0)

\* roi = (net / buy) * 100 as the ratio n/d
roi(x, b) ==
    IF b > 0 THEN [n |-> 100 * x.w + x.f, d |-> b] ELSE [n |-> 0, d |-> 1]

RoiGreater(r, k) == r.n > k * r.d

\* variant: roi >= threshold in place of roi > threshold
tier_inclusive(x, r) ==
    IF NetNegative(x) THEN "CRASH"
    ELSE IF r.n >= 35 * r.d \/ NetGreater(x, 5000000) THEN "DIAMOND"
    ELSE IF r.n >= 20 * r.d \/ NetGreater(x, 1000000) THEN "GOLD"
    ELSE IF r.n >= 8 * r.d \/ NetGreater(x, 200000) THEN "GREEN"
    ELSE "NORMAL"

\* variant: no tier when no threshold is exceeded
tier_no_normal(x, r) ==
    IF NetNegative(x) THEN "CRASH"
    ELSE IF RoiGreater(r, 35) \/ NetGreater(x, 5000000) THEN "DIAMOND"
    ELSE IF RoiGreater(r, 20) \/ NetGreater(x, 1000000) THEN "GOLD"
    ELSE IF RoiGreater(r, 8) \/ NetGreater(x, 200000) THEN "GREEN"
    ELSE "NONE"

\* the tier chain, first match wins
tier(x, r) ==
    IF NetNegative(x) THEN "CRASH"
    ELSE IF RoiGreater(r, 35) \/ NetGreater(x, 5000000) THEN "DIAMOND"
    ELSE IF RoiGreater(r, 20) \/ NetGreater(x, 1000000) THEN "GOLD"
    ELSE IF RoiGreater(r, 8) \/ NetGreater(x, 200000) THEN "GREEN"
    ELSE "NORMAL"

\* (roi * 2.0).max(i32::MIN as f64).min(i32::MAX as f64) as i32
roi_score(r) ==
    LET m == IF r.n < 0 THEN -r.n ELSE r.n
        q == m \div r.d
        k == 2 * q + (2 * (m % r.d)) \div r.d
    IN  IF q > I32_MAX \div 2
        THEN (IF r.n < 0 THEN I32_MIN ELSE I32_MAX)
        ELSE (IF r.n < 0 THEN -k ELSE k)

\* ceil(10^(k/15)) for k = 1..100: log10(v) * 15 >= k  iff  v >= Log10Steps[k]
Log10Steps ==
    <<2, 2, 2, 2, 3, 3, 3, 4, 4, 5, 6, 7, 8, 9, 10, 12, 14, 16, 19, 22,
      26, 30, 35, 40, 47, 55, 64, 74, 86, 100, 117, 136, 159, 185, 216,
      252, 293, 342, 399, 465, 542, 631, 736, 858, 1000, 1166, 1360, 1585,
      1848, 2155, 2512, 2929, 3415, 3982, 4642, 5412, 6310, 7357, 8577,
      10000, 11660, 13594, 15849, 18479, 21545, 25119, 29287, 34146, 39811,
      46416, 54117, 63096, 73565, 85770, 100000, 116592, 135936, 158490,
      184785, 215444, 251189, 292865, 341455, 398108, 464159, 541170,
      630958, 735643, 857696, 1000000, 1165915, 1359357, 1584894, 1847850,
      2154435, 2511887, 2928645, 3414549, 3981072, 4641589>>

\* (avg_volume.log10() * 15.0).max(0.0).min(100.0) as i32, avg_volume integer-valued
volume_score(avg_volume) ==
    IF avg_volume > 0
    THEN Cardinality({k \in 1..100 : Log10Steps[k] <= avg_volume})
    ELSE 0

profit_score(x) ==
    LET below == IF x.f = 0 THEN (-x.w) \div 100000 ELSE (-x.w - 1) \div 100000
    IN  IF NetPositive(x)
        THEN (IF x.w \div 100000 > 50 THEN 50 ELSE x.w \div 100000)
        ELSE (IF below > 50 THEN -50 ELSE -below)

\* variant: the guard is q50 >= 0.0; a division by 0.0 gives inf or NaN,
\* and both become 100.0 under min(100.0)
volatility_score_zero_divisor(q50, q90, q10) ==
    IF q50 < 0 THEN 0
    ELSE IF q50 = 0 \/ ~range_fits(q90, q10) \/ q90 - q10 >= q50 THEN 50
    ELSE (50 * (q90 - q10)) \div q50

\* (volatility.min(100.0) / 2.0) as i32, volatility = price_range / q50 * 100
volatility_score(q50, q90, q10) ==
    IF q50 <= 0 THEN 0
    ELSE IF ~range_fits(q90, q10) \/ q90 - q10 >= q50 THEN 50
    ELSE (50 * (q90 - q10)) \div q50

reliability_score(data_points) ==
    IF data_points \div 5 > 10 THEN 10 ELSE data_points \div 5

\* price_range < buy * 0.02
spread_penalty(q90, q10, b) ==
    IF range_fits(q90, q10) /\ MulLess(q90 - q10, 50, b, 1) THEN -20 ELSE 0

\* price_trend is the ratio n/d
trend_score(price_trend) ==
    LET n == price_trend.n
        d == price_trend.d
    IN  IF n > 0
        THEN (IF n >= 50 * d THEN 25 ELSE n \div (2 * d))
        ELSE (IF -n >= 50 * d THEN -25 ELSE -((-n) \div (2 * d)))

outlier_penalty(outliers_removed, data_points) ==
    IF outliers_removed > data_points \div 5 THEN -30
    ELSE IF outliers_removed > 0 THEN -10
    ELSE 0

\* variant: price_crashed is tested before recent_trend_crash
crash_penalty_crash_first(rtc, crashed, spiked) ==
    IF crashed THEN -50
    ELSE IF rtc THEN -80
    ELSE IF spiked THEN -30
    ELSE 0

crash_penalty(rtc, crashed, spiked) ==
    IF rtc THEN -80
    ELSE IF crashed THEN -50
    ELSE IF spiked THEN -30
    ELSE 0

\* roi_score.saturating_add(volume_score) ... .saturating_add(crash_penalty)
score(l) ==
    SatAdd(SatAdd(SatAdd(SatAdd(SatAdd(SatAdd(SatAdd(SatAdd(
        l.roi_score,
        l.volume_score),
        l.profit_score),
        l.volatility_score),
        l.reliability_score),
        l.spread_penalty),
        l.trend_score),
        l.outlier_penalty),
        l.crash_penalty)

\* the crash / spike marker at the start of the notes
crash_marker(rtc, ur, crashed, spiked) ==
    IF rtc THEN "VOLATILE-CRASHING"
    ELSE IF ur /\ crashed THEN "Crashed"
    ELSE IF ur /\ spiked THEN "Spiked"
    ELSE ""

\* net.round() as i32
profit(x) ==
    IF x.w >= 0 THEN AsI32(x.w + (IF x.f >= 50 THEN 1 ELSE 0))
    ELSE AsI32(x.w + (IF x.f > 50 THEN 1 ELSE 0))

\* The locals of analyze, in the order the code binds them.
Locals(s) ==
    LET om == quantile(s.prices, 50)
        oq75 == quantile(s.prices, 75)
        rm == recent_median(s.recent_prices, om)
        crashed == price_crashed(rm, om, oq75)
        spiked == price_spiked(rm, om)
        avg == recent_avg_all(s.recent_prices_chrono, rm)
        rtc == post_spike_crash(avg, oq75) \/ recent_downtrend(s.recent_prices_chrono)
        ur == use_recent(crashed, spiked, s.recent_prices)
        uf == use_filtered(ur, s.filtered_prices, s.outliers_removed)
        prices == sorted_prices(analysis_prices(s, ur, uf))
        p10 == quantile(prices, 10)
        p50 == quantile(prices, 50)
        p90 == quantile(prices, 90)
        b == buy(ur, quantile(prices, 15), p10)
        se == sell(ur, quantile(prices, 85), p90)
    IN  [price_crashed |-> crashed,
         price_spiked |-> spiked,
         recent_trend_crash |-> rtc,
         use_recent |-> ur,
         use_filtered |-> uf,
         series |-> analysis_series(ur, uf),
         prices |-> prices,
         q05 |-> quantile(prices, 5),
         q50 |-> p50,
         q95 |-> quantile(prices, 95),
         buy |-> b,
         sell |-> se,
         overflow |-> SubOverflows(se, b),
         volatility_is_zero |-> volatility_is_zero(p50, p90, p10),
         volume_score |-> volume_score(s.avg_volume),
         volatility_score |-> volatility_score(p50, p90, p10),
         reliability_score |-> reliability_score(s.data_points),
         spread_penalty |-> spread_penalty(p90, p10, b),
         trend_score |-> trend_score(s.price_trend),
         outlier_penalty |-> outlier_penalty(s.outliers_removed, s.data_points),
         crash_penalty |-> crash_penalty(rtc, crashed, spiked),
         crash_marker |-> crash_marker(rtc, ur, crashed, spiked)]

\* ... and those that follow the subtraction sell - buy
Profitability(l, t, oc) ==
    LET g == gross(l.sell, l.buy, oc)
        x == net(g, l.sell, t)
        r == roi(x, l.buy)
    IN  [gross |-> g, net |-> x, roi |-> r, tier |-> tier(x, r),
         roi_score |-> roi_score(r), profit_score |-> profit_score(x)]

\* The notes string, field by field: marker, outlier count, spread, the
\* Q5-Q95 band and the data point count.  The volatility percentage text
\* is not carried.
notes(s, l) ==
    <<l.crash_marker, s.outliers_removed, l.gross, l.q05, l.q95, s.data_points>>

\* analyze past the subtraction sell - buy: the FlipResult is built
analyze_result(s, t, oc, l0) ==
    LET pr == Profitability(l0, t, oc)
        l == [k \in DOMAIN l0 \cup DOMAIN pr |->
                IF k \in DOMAIN l0 THEN l0[k] ELSE pr[k]]
    IN  [status |-> "returned",
         res |-> [score |-> score(l), tier |-> l.tier, buy |-> l.buy,
                  sell |-> l.sell, qty |-> 1, profit |-> profit(l.net),
                  roi |-> l.roi, avg_volume |-> s.avg_volume,
                  notes |-> notes(s, l)],
         loc |-> l]

\* analyze from the medians on; sell - buy panics in a build with overflow checks
analyze_rest(s, t, oc) ==
    LET l0 == Locals(s)
    IN  IF oc /\ l0.overflow
        THEN [status |-> "panicked", res |-> <<>>, loc |-> <<>>]
        ELSE analyze_result(s, t, oc, l0)

\* variant: without the return on empty prices
analyze_no_guard(s, t, oc) == analyze_rest(s, t, oc)

\* analyze(stats, tax).  status is "returned" or "panicked"; res is the
\* FlipResult, loc the locals (<<>> when none were computed).
analyze(s, t, oc) ==
    IF s.prices = <<>>
    THEN [status |-> "returned", res |-> EmptyFlipResult, loc |-> <<>>]
    ELSE analyze_rest(s, t, oc)

-----------------------------------------------------------------------------
(* stats.rs                                                                *)

\* quantile(sorted, q) with q = pct/100: the copy of stats.rs
stats_quantile(sorted, pct) ==
    IF sorted = <<>> THEN 0
    ELSE sorted[RoundDiv((Len(sorted) - 1) * pct, 100) + 1]

\* variant: the bounds are exclusive
remove_outliers_iqr_exclusive(prices) ==
    LET q1 == stats_quantile(prices, 25)
        q3 == stats_quantile(prices, 75)
        iqr == q3 - q1
        keep(p) == 2 * p > 2 * q1 - 3 * iqr /\ 2 * p < 2 * q3 + 3 * iqr
        filtered == SelectSeq(prices, keep)
        removed == Len(prices) - Len(filtered)
    IN  IF Len(filtered) < (Len(prices) * 7) \div 10
        THEN [filtered |-> prices, removed |-> 0]
        ELSE [filtered |-> filtered, removed |-> removed]

\* remove_outliers from the quartiles on: [filtered, removed].
\* p >= q1 - 1.5 * iqr  and  p <= q3 + 1.5 * iqr, doubled to stay in integers.
remove_outliers_iqr(prices) ==
    LET q1 == stats_quantile(prices, 25)
        q3 == stats_quantile(prices, 75)
        iqr == q3 - q1
        keep(p) == 2 * p >= 2 * q1 - 3 * iqr /\ 2 * p <= 2 * q3 + 3 * iqr
        filtered == SelectSeq(prices, keep)
        removed == Len(prices) - Len(filtered)
    IN  IF Len(filtered) < (Len(prices) * 7) \div 10
        THEN [filtered |-> prices, removed |-> 0]
        ELSE [filtered |-> filtered, removed |-> removed]

\* variant: without the return on fewer than 10 prices
remove_outliers_any_len(prices) == remove_outliers_iqr(prices)

\* Remove outliers using the IQR method: [filtered, removed]
remove_outliers(prices) ==
    IF Len(prices) < 10
    THEN [filtered |-> prices, removed |-> 0]
    ELSE remove_outliers_iqr(prices)

\* variant: x_mean is n / 2
calculate_trend_mean_off(prices) ==
    LET m == Len(prices)
        S == SumSeq(prices)
        c(i) == 2 * (i - 1) - m
        num == SumSeq([i \in 1..m |-> c(i) * (m * prices[i] - S)])
        den == SumSeq([i \in 1..m |-> c(i) * c(i)])
    IN  IF m < 2 THEN [n |-> 0, d |-> 1]
        ELSE IF den # 0 THEN [n |-> 2 * num, d |-> m * den]
        ELSE [n |-> 0, d |-> 1]

\* Least-squares slope of prices against their 0-based index, as the ratio
\* n/d.  With m = Len(prices), S the sum and c_i = 2i - (m - 1):
\*   numerator   = (sum of c_i * (m * p_i - S)) / (2m)
\*   denominator = (sum of c_i * c_i) / 4
calculate_trend(prices) ==
    LET m == Len(prices)
        S == SumSeq(prices)
        c(i) == 2 * (i - 1) - (m - 1)
        num == SumSeq([i \in 1..m |-> c(i) * (m * prices[i] - S)])
        den == SumSeq([i \in 1..m |-> c(i) * c(i)])
    IN  IF m < 2 THEN [n |-> 0, d |-> 1]
        ELSE IF den # 0 THEN [n |-> 2 * num, d |-> m * den]
        ELSE [n |-> 0, d |-> 1]

\* variant: the latest record is that of the whole input
records_of_shared_last(data, id) ==
    LET own == SelectSeq(data, LAMBDA x : x.item_id = id)
    IN  SubSeq(own, 1, Len(own) - 1) \o <<[data[Len(data)] EXCEPT !.item_id = id]>>

\* the records of one item, in input order (map.entry(id).or_default().push)
records_of(data, id) == SelectSeq(data, LAMBDA x : x.item_id = id)

item_ids(data) == {data[i].item_id : i \in DOMAIN data}

\* variant: the window is never cut
recent_cutoff_none(len) == 0

\* recent_cutoff: the index the last 14 records start at
recent_cutoff(len) == IF len >= 14 THEN len - 14 ELSE 0

\* price_trend of build_stats: the trend of the filtered prices, else of all
price_trend(filtered_prices, prices) ==
    IF Len(filtered_prices) >= 3 THEN calculate_trend(filtered_prices)
    ELSE IF Len(prices) >= 3 THEN calculate_trend(prices)
    ELSE [n |-> 0, d |-> 1]

\* the body of the loop of build_stats for one (id, records) entry
item_stats(id, records) ==
    LET chrono == [i \in 1..Len(records) |-> records[i].price]
        prices == Sort(chrono)
        volumes == [i \in 1..Len(records) |-> records[i].volume]
        recent_prices_chrono ==
            SubSeq(chrono, recent_cutoff(Len(records)) + 1, Len(records))
        current == records[Len(records)]
        prev == IF Len(records) > 1 THEN records[Len(records) - 1].price
                ELSE current.price
        ro == remove_outliers(prices)
    IN  [item_id |-> id,
         current_price |-> prices[Len(prices)],
         prev_price |-> prev,
         avg_volume |-> SumSeq(volumes) \div Len(volumes),
         q10 |-> stats_quantile(prices, 10),
         q50 |-> stats_quantile(prices, 50),
         q90 |-> stats_quantile(prices, 90),
         data_points |-> Len(prices),
         current_volume |-> current.volume,
         prices |-> prices,
         price_trend |-> price_trend(ro.filtered, prices),
         filtered_prices |-> ro.filtered,
         outliers_removed |-> ro.removed,
         recent_prices |-> Sort(recent_prices_chrono),
         recent_prices_chrono |-> recent_prices_chrono]

\* variant: an id may come up twice
OrdersWithRepeats(ids) == [1..Cardinality(ids) -> ids]

\* the iteration orders of the HashMap: every sequence of the ids without repeats
Orders(ids) ==
    {o \in [1..Cardinality(ids) -> ids] : \A i, j \in DOMAIN o : i # j => o[i] # o[j]}

\* build_stats(data), the map iterated in order o
build_stats(data, o) ==
    [k \in 1..Len(o) |-> item_stats(o[k], records_of(data, o[k]))]

-----------------------------------------------------------------------------
(* ui.rs: RS3App                                                           *)

\* RS3App::new().  The fields carried are those load_data writes and the
\* settings it and apply_filters read; selected_tier is the set of the
\* selected tiers, empty for None.  search, min_profit, min_roi,
\* show_favorites_only, sort_by and sort_order stay at their initial
\* values (no search, no minimum, all items, by score descending).
RS3AppNew ==
    [loaded |-> FALSE, items |-> <<>>, filtered_items |-> <<>>,
     budget |-> 50000000, show_bad |-> FALSE, selected_tier |-> {}]

\* qty: ((budget / buy) as i32).min(ge_limit), 0 when buy <= 0
qty(budget, b, ge_limit) ==
    IF b > 0
    THEN (IF AsI32(budget \div b) < ge_limit THEN AsI32(budget \div b) ELSE ge_limit)
    ELSE 0

\* the Row of one item; the item_id stands for the name
Row(s, f, budget, ge_limit) ==
    LET q == qty(budget, f.buy, ge_limit)
    IN  [name |-> s.item_id, score |-> f.score, tier |-> f.tier,
         buy |-> f.buy, sell |-> f.sell, qty |-> q, profit |-> f.profit * q,
         roi |-> f.roi, notes |-> f.notes, trend |-> s.price_trend,
         total_cost |-> f.buy * q, avg_volume |-> f.avg_volume]

\* sort_by(|a, b| b.score.cmp(&a.score)): descending by score, stable
RECURSIVE SortByScore(_)
SortByScore(rows) ==
    IF rows = <<>> THEN <<>>
    ELSE LET rest == SortByScore(Tail(rows))
             ahead == SelectSeq(rest, LAMBDA r : r.score > Head(rows).score)
             behind == SelectSeq(rest, LAMBDA r : r.score <= Head(rows).score)
         IN  ahead \o <<Head(rows)>> \o behind

\* apply_filters: filtered_items from items and the settings
apply_filters(a) ==
    LET keep(r) ==
            /\ r.qty > 0
            /\ r.avg_volume >= 500
            /\ r.roi.n <= 150 * r.roi.d
            /\ r.buy >= 100
            /\ (a.selected_tier # {} => r.tier \in a.selected_tier)
            /\ (~a.show_bad => r.score > 0)
    IN  [a EXCEPT !.filtered_items = SortByScore(SelectSeq(a.items, keep))]

\* the calls of analyze in the loop of load_data, up to the first panic
RECURSIVE analyze_each(_, _, _)
analyze_each(st, t, oc) ==
    IF st = <<>> THEN <<>>
    ELSE LET f == analyze(Head(st), t, oc)
         IN  IF f.status = "panicked" THEN <<f>>
             ELSE <<f>> \o analyze_each(Tail(st), t, oc)

\* variant: a failed load counts as a load of no observations
load_error_as_empty(a) ==
    apply_filters([a EXCEPT !.items = <<>>, !.loaded = TRUE])

\* Err(_) => return
load_error(a) == a

\* the end of load_data: self.items = rows; self.apply_filters(); self.loaded = true
load_done(a, st, fl, ge_limit) ==
    LET rows == [i \in 1..Len(st) |-> Row(st[i], fl[i].res, a.budget, ge_limit)]
    IN  [apply_filters([a EXCEPT !.items = rows]) EXCEPT !.loaded = TRUE]

-----------------------------------------------------------------------------
(* The callers: load_data runs build_stats on the loaded observations and  *)
(* then analyze on one ItemStats after the other.                          *)

\* let stats = build_stats(&snaps): the HashMap yields the items in some order
BuildStats ==
    /\ pc = "start"
    /\ \E o \in Orders(item_ids(snaps)) :
          stats' = build_stats(snaps, o)
    /\ pc' = "built"
    /\ UNCHANGED <<overflow_checks, snaps, tax, flips, call, app>>

\* one call of analyze: the next item of stats
AnalyzeNext ==
    /\ pc = "built"
    /\ Len(flips) < Len(stats)
    /\ LET i == Len(flips) + 1
           r == analyze(stats[i], tax, overflow_checks)
       IN  /\ flips' = Append(flips, r)
           /\ pc' = IF r.status = "panicked" THEN "panicked"
                    ELSE IF i = Len(stats) THEN "done"
                    ELSE "built"
    /\ UNCHANGED <<overflow_checks, snaps, stats, tax, call, app>>

-----------------------------------------------------------------------------
(* analyze on its own: any ItemStats of the bounded domain, any tax        *)

MaxLen == 14

Ramp(n, a, d) == [i \in 1..n |-> a + (i - 1) * d]

\* two-price series <<buy, sell>>: around the tier thresholds, an extreme roi,
\* a spread beyond the i32 range, and a negative buy
PricePairs ==
    {<<100, 105>>, <<100, 108>>, <<100, 109>>, <<100, 120>>, <<100, 121>>,
     <<100, 135>>, <<100, 136>>, <<1, 20000000>>, <<16000000, 21200000>>,
     <<6000000, 7100000>>, <<5000000, 5300000>>, <<I32_MIN + 100, 1000>>,
     <<-5, 3>>}

AnalyzePrices ==
    {<<>>, <<0, 0, 50>>, <<135, 100, 120>>}
    \cup {Ramp(n, 100, d) : n \in {1, 3, MaxLen}, d \in {0, 10}}
    \cup PricePairs

AnalyzeRecent ==
    {<<>>,
     Ramp(5, 50, 0),
     Ramp(MaxLen - 2, 50, 0),
     Ramp(MaxLen, 300, 0),
     Ramp(MaxLen - 2, 130, -5),
     Ramp(MaxLen, 40, 10),
     Ramp(7, 70, 0) \o Ramp(MaxLen - 9, 1000, 0)}

Taxes == {0, 2, 50}

\* <<avg_volume, price_trend>>
VolumeTrends ==
    {<<-5, [n |-> -120, d |-> 1]>>, <<0, [n |-> 0, d |-> 1]>>,
     <<1000, [n |-> 7, d |-> 2]>>}

AnalyzeInputs ==
    {[item_id |-> 1,
      current_price |-> 0, prev_price |-> 0,
      avg_volume |-> vt[1],
      q10 |-> 0, q50 |-> 0, q90 |-> 0,
      data_points |-> IF p = <<>> THEN 7 ELSE Len(p),
      current_volume |-> 0,
      prices |-> p,
      price_trend |-> vt[2],
      filtered_prices |-> f,
      outliers_removed |-> o,
      recent_prices |-> Sort(c),
      recent_prices_chrono |-> c] :
        p \in AnalyzePrices, c \in AnalyzeRecent,
        f \in {<<>>, <<100, 100, 110>>}, o \in {0, 2},
        vt \in VolumeTrends}

InitAnalyze ==
    /\ pc = "built"
    /\ overflow_checks \in BOOLEAN
    /\ snaps = <<>>
    /\ stats \in {<<s>> : s \in AnalyzeInputs}
    /\ tax \in Taxes
    /\ flips = <<>>
    /\ call = <<>>
    /\ app = RS3AppNew

SpecAnalyze == InitAnalyze /\ [][AnalyzeNext]_vars

-----------------------------------------------------------------------------
(* build_stats, then analyze: observation sequences of the bounded domain  *)

MaxObs == 20

\* the price series of one item, in chronological order
ItemSeries ==
    {Ramp(n, p, 0) : n \in {1, 2, 9, 10, 14, MaxObs}, p \in {1, 100, 5000}}
    \cup {Ramp(n, 100, 7) : n \in {3, 14, MaxObs}}
    \cup {Ramp(10, 100, 0) \o Ramp(MaxObs - 10, 50, 0),
          Ramp(MaxObs - 1, 100, 1) \o <<10000>>,
          <<10000>> \o Ramp(MaxObs - 1, 100, 1),
          Ramp(MaxObs, 300, -10),
          Ramp(5, 50, 0) \o Ramp(3, 100, 0) \o <<1000>>,
          <<-5, 3>>,
          <<1, 20000000>>,
          <<I32_MIN + 100, 1000>>}

\* the series that also appear next to another item's
PairSeries ==
    {Ramp(2, 100, 0), Ramp(10, 100, 0), Ramp(3, 100, 7),
     Ramp(10, 100, 0) \o Ramp(MaxObs - 10, 50, 0),
     <<I32_MIN + 100, 1000>>}

\* the observations of item id; the dates are set by Dated
Obs(id, prices, vol) ==
    [i \in 1..Len(prices) |->
        [item_id |-> id, record_date |-> 0, price |-> prices[i], volume |-> vol]]

\* alternate the records of two items
RECURSIVE Interleave(_, _)
Interleave(a, b) ==
    IF a = <<>> THEN b
    ELSE IF b = <<>> THEN a
    ELSE <<Head(a), Head(b)>> \o Interleave(Tail(a), Tail(b))

\* ORDER BY record_date: the position in the sequence is the date
Dated(data) == [i \in 1..Len(data) |-> [data[i] EXCEPT !.record_date = i]]

SnapInputs ==
    {Dated(Obs(1, p, vol)) : p \in ItemSeries, vol \in {0, 1000}}
    \cup {Dated(Obs(1, p, 1000) \o Obs(2, q, 1000)) : p \in PairSeries, q \in PairSeries}
    \cup {Dated(Interleave(Obs(1, p, 1000), Obs(2, q, 1000))) :
            p \in PairSeries, q \in PairSeries}
    \cup {<<>>,
          Dated(Interleave(Interleave(Obs(1, Ramp(2, 100, 0), 1000),
                                      Obs(2, Ramp(3, 100, 7), 1000)),
                           Obs(3, Ramp(10, 100, 0), 1000)))}

Init ==
    /\ pc = "start"
    /\ overflow_checks \in BOOLEAN
    /\ snaps \in SnapInputs
    /\ stats = <<>>
    /\ tax \in Taxes
    /\ flips = <<>>
    /\ call = <<>>
    /\ app = RS3AppNew

Next == BuildStats \/ AnalyzeNext

Spec == Init /\ [][Next]_vars

-----------------------------------------------------------------------------
(* build_stats as a public function: observation sequences that are not    *)
(* ordered by record_date                                                  *)

RECURSIVE Reverse(_)
Reverse(v) == IF v = <<>> THEN <<>> ELSE Append(Reverse(Tail(v)), Head(v))

\* the dated observations, latest first
AnyOrderInputs == {Reverse(d) : d \in SnapInputs}

InitAnyOrder ==
    /\ pc = "start"
    /\ overflow_checks \in BOOLEAN
    /\ snaps \in AnyOrderInputs
    /\ stats = <<>>
    /\ tax \in Taxes
    /\ flips = <<>>
    /\ call = <<>>
    /\ app = RS3AppNew

SpecAnyOrder == InitAnyOrder /\ [][Next]_vars

-----------------------------------------------------------------------------
(* The helpers on their own: one call of quantile (both copies),           *)
(* remove_outliers, calculate_trend, the price_trend selection of          *)
(* build_stats, or build_stats on one item, on an argument of the bounded  *)
(* domain                                                                  *)

\* q as a whole percentage: the nine values the code passes, and 0 and 1
Pcts == {0, 5, 10, 15, 25, 50, 75, 85, 90, 95, 100}

QuantileSeqs ==
    {<<>>, <<7>>, <<5, 5>>, <<10, 20, 30, 40>>, <<10, 20, 30, 40, 50>>,
     <<30, 10, 20>>, <<50, 40, 30, 20, 10, 0>>, <<-3, 0, 4>>,
     Ramp(MaxLen - 1, 1, 1), Ramp(MaxLen, 1, 1)}

\* a sorted series: a at 1, b at 100, c at 1000
Steps(a, b, c) == Ramp(a, 1, 0) \o Ramp(b, 100, 0) \o Ramp(c, 1000, 0)

\* sorted price series, as build_stats passes them
SortedSeqs ==
    {Steps(a, b, c) : a \in 0..3, b \in 5..8, c \in 0..3}
    \cup {Ramp(n, 100, d) : n \in {1, 2, 3, 9, 10, MaxLen}, d \in {0, 1, 10}}
    \cup {<<1, 1, 1, 1, 1, 1, 1, 1, 100>>, <<-50, 1, 2, 3>>}

TrendSeqs ==
    {<<>>, <<5>>, <<1, 2, 3, 4, 5>>, <<3, 1, 2>>, <<1, 4, 9, 16>>, <<2, 2, 5>>}
    \cup {Ramp(n, a, d) : n \in {2, 3, MaxLen}, a \in {-4, 1, 300}, d \in {-10, 0, 1}}

CallQuantile ==
    /\ pc = "helpers"
    /\ call = <<>>
    /\ \E v \in QuantileSeqs, pct \in Pcts :
          call' = [fn |-> "quantile", v |-> v, pct |-> pct,
                   flips_ret |-> quantile(v, pct),
                   stats_ret |-> stats_quantile(v, pct)]
    /\ UNCHANGED <<pc, overflow_checks, snaps, stats, tax, flips, app>>

CallRemoveOutliers ==
    /\ pc = "helpers"
    /\ call = <<>>
    /\ \E prices \in SortedSeqs \cup {<<>>} :
          call' = [fn |-> "remove_outliers", prices |-> prices,
                   ret |-> remove_outliers(prices)]
    /\ UNCHANGED <<pc, overflow_checks, snaps, stats, tax, flips, app>>

CallCalculateTrend ==
    /\ pc = "helpers"
    /\ call = <<>>
    /\ \E prices \in TrendSeqs :
          call' = [fn |-> "calculate_trend", prices |-> prices,
                   ret |-> calculate_trend(prices)]
    /\ UNCHANGED <<pc, overflow_checks, snaps, stats, tax, flips, app>>

\* stats.rs:44-52 on the sorted prices of an item
CallPriceTrend ==
    /\ pc = "helpers"
    /\ call = <<>>
    /\ \E prices \in SortedSeqs :
          call' = [fn |-> "price_trend", prices |-> prices,
                   filtered |-> remove_outliers(prices).filtered,
                   ret |-> price_trend(remove_outliers(prices).filtered, prices)]
    /\ UNCHANGED <<pc, overflow_checks, snaps, stats, tax, flips, app>>

\* the observations of one item, in rising and in falling order of price
HelperSeries == SortedSeqs \cup {Reverse(v) : v \in SortedSeqs}

\* build_stats on the observations of one item
CallBuildStats ==
    /\ pc = "helpers"
    /\ call = <<>>
    /\ \E p \in HelperSeries :
          call' = [fn |-> "build_stats", data |-> Dated(Obs(1, p, 1000)),
                   ret |-> build_stats(Dated(Obs(1, p, 1000)), <<1>>)]
    /\ UNCHANGED <<pc, overflow_checks, snaps, stats, tax, flips, app>>

InitHelpers ==
    /\ pc = "helpers"
    /\ overflow_checks = FALSE
    /\ snaps = <<>>
    /\ stats = <<>>
    /\ tax = 0
    /\ flips = <<>>
    /\ call = <<>>
    /\ app = RS3AppNew

NextHelpers ==
    \/ CallQuantile
    \/ CallRemoveOutliers
    \/ CallCalculateTrend
    \/ CallPriceTrend
    \/ CallBuildStats

SpecHelpers == InitHelpers /\ [][NextHelpers]_vars

-----------------------------------------------------------------------------
(* The application: scans that succeed, fail or panic, and the filter      *)
(* panel, from RS3App::new() on                                            *)

\* the budgets the control is set to: the default and the minimum
Budgets == {100000, 50000000}

TierLabels == {"DIAMOND", "GOLD", "GREEN", "NORMAL", "CRASH"}

\* what the database holds at the time of a scan
AppSnapInputs ==
    {<<>>,
     Dated(Obs(1, Ramp(10, 5000, 0), 1000)),
     Dated(Interleave(Obs(1, Ramp(MaxObs, 100, 7), 1000),
                      Obs(2, Ramp(10, 100, 0) \o Ramp(MaxObs - 10, 50, 0), 1000))),
     Dated(Obs(1, <<I32_MIN + 100, 1000>>, 1000))}

\* the results of load_snapshots
LoadResults ==
    {[ok |-> FALSE, v |-> <<>>, ge_limit |-> 0]}
    \cup {[ok |-> TRUE, v |-> d, ge_limit |-> 100] : d \in AppSnapInputs}

\* load_data on the RS3App a, called by handler fn.  result is what
\* load_snapshots returns: ok or not, the observations v, and the ge_limit
\* the items carry.  call records the handler and the outcome of the load.
LoadData(fn, a) ==
    \E result \in LoadResults :
        IF ~result.ok
        THEN /\ app' = load_error(a)
             /\ call' = [fn |-> fn, result |-> "Err"]
             /\ UNCHANGED <<pc, snaps, stats, flips>>
        ELSE \E o \in Orders(item_ids(result.v)) :
             \E st \in {SelectSeq(build_stats(result.v, o),
                                   LAMBDA x : x.data_points >= 1)} :
             \E fl \in {analyze_each(st, tax, overflow_checks)} :
                 LET panicked == fl # <<>> /\ fl[Len(fl)].status = "panicked"
                 IN  /\ snaps' = result.v
                     /\ stats' = st
                     /\ flips' = fl
                     /\ pc' = IF panicked THEN "panicked" ELSE pc
                     /\ app' = IF panicked THEN a
                               ELSE load_done(a, st, fl, result.ge_limit)
                     /\ call' = [fn |-> fn,
                                 result |-> IF panicked THEN "panicked" ELSE "Ok"]

\* the Scan Market button
ScanMarket ==
    /\ pc = "app"
    /\ LoadData("scan", app)
    /\ UNCHANGED <<overflow_checks, tax>>

\* the budget control: the budget changes, and a loaded app scans again
ChangeBudget ==
    /\ pc = "app"
    /\ \E b \in Budgets :
          /\ b # app.budget
          /\ IF app.loaded
             THEN LoadData("budget", [app EXCEPT !.budget = b])
             ELSE /\ app' = [app EXCEPT !.budget = b]
                  /\ call' = [fn |-> "budget", result |-> "none"]
                  /\ UNCHANGED <<pc, snaps, stats, flips>>
    /\ UNCHANGED <<overflow_checks, tax>>

\* a tier label of the filter panel: select it, or clear it when selected
SelectTier ==
    /\ pc = "app"
    /\ app.loaded
    /\ \E t \in TierLabels :
          app' = apply_filters([app EXCEPT !.selected_tier =
                                   IF app.selected_tier = {t} THEN {} ELSE {t}])
    /\ call' = [fn |-> "tier", result |-> "none"]
    /\ UNCHANGED <<pc, overflow_checks, snaps, stats, tax, flips>>

\* the Show Negative Score Items checkbox
ToggleShowBad ==
    /\ pc = "app"
    /\ app.loaded
    /\ app' = apply_filters([app EXCEPT !.show_bad = ~app.show_bad])
    /\ call' = [fn |-> "show_bad", result |-> "none"]
    /\ UNCHANGED <<pc, overflow_checks, snaps, stats, tax, flips>>

\* the Reset All Filters button
ResetFilters ==
    /\ pc = "app"
    /\ app.loaded
    /\ app' = apply_filters([app EXCEPT !.selected_tier = {}, !.show_bad = FALSE])
    /\ call' = [fn |-> "reset", result |-> "none"]
    /\ UNCHANGED <<pc, overflow_checks, snaps, stats, tax, flips>>

\* let tax = 0.02
InitApp ==
    /\ pc = "app"
    /\ overflow_checks \in BOOLEAN
    /\ snaps = <<>>
    /\ stats = <<>>
    /\ tax = 2
    /\ flips = <<>>
    /\ call = <<>>
    /\ app = RS3AppNew

NextApp ==
    \/ ScanMarket
    \/ ChangeBudget
    \/ SelectTier
    \/ ToggleShowBad
    \/ ResetFilters

SpecApp == InitApp /\ [][NextApp]_vars

-----------------------------------------------------------------------------
(* Properties of analyze (SpecAnalyze)                                     *)

\* the calls of analyze that went past the empty-prices return
Analyzed == {i \in DOMAIN flips : flips[i].status = "returned" /\ stats[i].prices # <<>>}

FiveTiers == {"CRASH", "NORMAL", "GREEN", "GOLD", "DIAMOND"}

\* no price of the three series is negative: sell - buy stays in the i32 range
NonNegativeSeries(s) ==
    \A v \in {s.prices, s.filtered_prices, s.recent_prices} :
        \A j \in DOMAIN v : v[j] >= 0

\* C1: with non-empty prices the tier is the first match of: CRASH if
\* net < 0; DIAMOND if roi > 35 or net > 5,000,000; GOLD if roi > 20 or
\* net > 1,000,000; GREEN if roi > 8 or net > 200,000; else NORMAL, where
\* net = (sell - buy) - sell * tax and roi = net / buy * 100 (0 if buy <= 0).
\* net100 is 100 * net.  A call without negative prices returns.
TierByFirstMatch ==
    \A i \in DOMAIN flips :
        /\ (stats[i].prices # <<>> /\ NonNegativeSeries(stats[i])) =>
               flips[i].status = "returned"
        /\ (i \in Analyzed /\ NonNegativeSeries(stats[i])) =>
               LET r == flips[i].res
                   net100 == 100 * (r.sell - r.buy) - r.sell * tax
                   roi_above(k) == r.buy > 0 /\ net100 > k * r.buy
               IN  r.tier =
                       IF net100 < 0 THEN "CRASH"
                       ELSE IF roi_above(35) \/ net100 > 500000000 THEN "DIAMOND"
                       ELSE IF roi_above(20) \/ net100 > 100000000 THEN "GOLD"
                       ELSE IF roi_above(8) \/ net100 > 20000000 THEN "GREEN"
                       ELSE "NORMAL"
        /\ i \in Analyzed =>
               LET x == flips[i].loc.net
                   r == flips[i].res.roi
                   net_above(k) == x.w > k \/ (x.w = k /\ x.f > 0)
               IN  flips[i].res.tier =
                       IF x.w < 0 THEN "CRASH"
                       ELSE IF r.n > 35 * r.d \/ net_above(5000000) THEN "DIAMOND"
                       ELSE IF r.n > 20 * r.d \/ net_above(1000000) THEN "GOLD"
                       ELSE IF r.n > 8 * r.d \/ net_above(200000) THEN "GREEN"
                       ELSE "NORMAL"

\* a GREEN earned by the net profit alone: roi is 6 percent
TierByFirstMatchWitness ==
    \E i \in Analyzed :
        /\ flips[i].res.tier = "GREEN"
        /\ flips[i].res.profit > 200000
        /\ flips[i].res.roi.n <= 8 * flips[i].res.roi.d

\* C2, as stated: every result of analyze carries one of the five tiers.
TierInFiveAnyInput ==
    \A i \in DOMAIN flips :
        flips[i].status = "returned" => flips[i].res.tier \in FiveTiers

\* C2, amended: the result for an input with at least one price carries one
\* of the five tiers; the result for empty prices is the sentinel, whose
\* tier is NONE.
TierInFiveOrSentinel ==
    \A i \in DOMAIN flips :
        flips[i].status = "returned" =>
            /\ stats[i].prices # <<>> => flips[i].res.tier \in FiveTiers
            /\ stats[i].prices = <<>> => flips[i].res.tier = "NONE"

\* a NORMAL result: no threshold is exceeded
TierInFiveOrSentinelWitness ==
    \E i \in Analyzed :
        /\ flips[i].res.tier = "NORMAL"
        /\ flips[i].res.profit >= 0

\* C3: for empty prices analyze returns the sentinel - score 0, buy 0,
\* sell 0, profit 0, roi 0, avg_volume 0, empty notes - and computes no
\* local, whatever the other fields and the tax are.
EmptyPricesGiveSentinel ==
    \A i \in DOMAIN flips :
        stats[i].prices = <<>> =>
            /\ flips[i].status = "returned"
            /\ flips[i].loc = <<>>
            /\ flips[i].res.score = 0
            /\ flips[i].res.buy = 0
            /\ flips[i].res.sell = 0
            /\ flips[i].res.qty = 0
            /\ flips[i].res.profit = 0
            /\ flips[i].res.roi.n = 0
            /\ flips[i].res.avg_volume = 0
            /\ flips[i].res.notes = <<>>

\* empty prices next to fields that would all contribute to a result
EmptyPricesGiveSentinelWitness ==
    \E i \in DOMAIN flips :
        /\ stats[i].prices = <<>>
        /\ Len(stats[i].recent_prices) >= 10
        /\ stats[i].filtered_prices # <<>>
        /\ stats[i].outliers_removed > 0
        /\ stats[i].avg_volume > 0
        /\ tax > 0

\* C4: price_crashed holds exactly when the recent median (the overall
\* median if recent_prices is empty) is below 0.80 x the overall median or
\* below 0.65 x the overall 75th percentile; price_spiked exactly when it
\* is above 1.25 x the overall median; a crashed item with at least 10
\* recent prices is priced from recent_prices (P15 / P85).
CrashSpikeFlags ==
    \A i \in Analyzed :
        LET s == stats[i]
            l == flips[i].loc
            om == quantile(s.prices, 50)
            oq75 == quantile(s.prices, 75)
            rm == IF s.recent_prices = <<>> THEN om ELSE quantile(s.recent_prices, 50)
        IN  /\ l.price_crashed <=> (5 * rm < 4 * om \/ 20 * rm < 13 * oq75)
            /\ l.price_spiked <=> (4 * rm > 5 * om)
            /\ (l.price_crashed /\ Len(s.recent_prices) >= 10) =>
                   /\ l.prices = Sort(s.recent_prices)
                   /\ flips[i].res.buy = quantile(Sort(s.recent_prices), 15)
                   /\ flips[i].res.sell = quantile(Sort(s.recent_prices), 85)

\* crashed by the median test alone (70 < 80 but not 70 < 65), 12 recent prices
CrashSpikeFlagsWitness ==
    \E i \in Analyzed :
        /\ flips[i].loc.price_crashed
        /\ ~flips[i].loc.price_spiked
        /\ Len(stats[i].recent_prices) >= 10
        /\ 20 * quantile(stats[i].recent_prices, 50) >= 13 * quantile(stats[i].prices, 75)
        /\ flips[i].res.buy = quantile(stats[i].recent_prices, 15)
        /\ flips[i].res.buy # quantile(stats[i].prices, 10)

\* C5: the working series is recent_prices iff (price_crashed or
\* price_spiked) and recent_prices has at least 10 points; otherwise
\* filtered_prices iff that is non-empty and outliers_removed > 0;
\* otherwise prices.  One of the three is chosen, and it is the series the
\* quantiles are taken from.
WorkingSeriesChoice ==
    \A i \in Analyzed :
        LET s == stats[i]
            l == flips[i].loc
            recent == (l.price_crashed \/ l.price_spiked) /\ Len(s.recent_prices) >= 10
            filtered == s.filtered_prices # <<>> /\ s.outliers_removed > 0
        IN  /\ l.series \in {"recent", "filtered", "all"}
            /\ l.series = "recent" <=> recent
            /\ l.series = "filtered" <=> (~recent /\ filtered)
            /\ l.series = "all" <=> (~recent /\ ~filtered)
            /\ l.prices = Sort(CASE l.series = "recent" -> s.recent_prices
                                 [] l.series = "filtered" -> s.filtered_prices
                                 [] OTHER -> s.prices)

\* filtered_prices chosen although recent_prices has 10 points: no signal
WorkingSeriesChoiceWitness ==
    \E i \in Analyzed :
        /\ flips[i].loc.series = "filtered"
        /\ Len(stats[i].recent_prices) >= 10
        /\ flips[i].loc.prices # Sort(stats[i].prices)
        /\ flips[i].loc.prices # Sort(stats[i].recent_prices)

StrictlyIncreasing(v) == \A j \in 1..(Len(v) - 1) : v[j] < v[j + 1]

\* C6: buy = round(P15) and sell = round(P85) of the working series when
\* use_recent, buy = round(P10) and sell = round(P90) otherwise; strictly
\* increasing prices without crash or spike signal get the P10 / P90 band.
QuantileBand ==
    \A i \in Analyzed :
        LET l == flips[i].loc
            r == flips[i].res
        IN  /\ l.use_recent =>
                   r.buy = quantile(l.prices, 15) /\ r.sell = quantile(l.prices, 85)
            /\ ~l.use_recent =>
                   r.buy = quantile(l.prices, 10) /\ r.sell = quantile(l.prices, 90)
            /\ (StrictlyIncreasing(stats[i].prices)
                    /\ ~l.price_crashed /\ ~l.price_spiked) =>
                   r.buy = quantile(l.prices, 10) /\ r.sell = quantile(l.prices, 90)

\* the recent window in use, on a series whose P15 is not its P10
QuantileBandWitness ==
    \E i \in Analyzed :
        /\ flips[i].loc.use_recent
        /\ quantile(flips[i].loc.prices, 15) # quantile(flips[i].loc.prices, 10)
        /\ quantile(flips[i].loc.prices, 85) # quantile(flips[i].loc.prices, 90)
        /\ flips[i].res.buy = quantile(flips[i].loc.prices, 15)

\* C11: the division guards give 0: roi is 0 whenever buy <= 0, the
\* volatility (and its sub-score) is 0 whenever the P50 of the working
\* series is <= 0, volume_score is 0 whenever avg_volume <= 0; a call
\* without negative prices returns.
DivisionGuards ==
    \A i \in DOMAIN flips :
        /\ (stats[i].prices # <<>> /\ NonNegativeSeries(stats[i])) =>
               flips[i].status = "returned"
        /\ i \in Analyzed =>
               LET l == flips[i].loc
                   r == flips[i].res
               IN  /\ r.buy <= 0 => (r.roi.n = 0 /\ l.roi_score = 0)
                   /\ quantile(l.prices, 50) <= 0 =>
                          (l.volatility_is_zero /\ l.volatility_score = 0)
                   /\ stats[i].avg_volume <= 0 => l.volume_score = 0

\* all three divisors are 0 or below in one call, the net profit is not
DivisionGuardsWitness ==
    \E i \in Analyzed :
        /\ flips[i].res.buy = 0
        /\ quantile(flips[i].loc.prices, 50) = 0
        /\ stats[i].avg_volume < 0
        /\ flips[i].res.profit > 0
        /\ flips[i].res.roi.n = 0

\* the sum of the eight sub-scores that are added to roi_score: -205..235
OtherSubScores(l) ==
    l.volume_score + l.profit_score + l.volatility_score + l.reliability_score
    + l.spread_penalty + l.trend_score + l.outlier_penalty + l.crash_penalty

\* C8: the score is the saturating i32 sum of the nine sub-scores: it is
\* their exact sum whenever no addition can leave the i32 range, it never
\* wraps to the other end of the range, and an roi of 2^30 percent or more
\* clamps roi_score to i32::MAX, the call returning.
ScoreSaturates ==
    \A i \in DOMAIN flips :
        /\ (stats[i].prices # <<>> /\ NonNegativeSeries(stats[i])) =>
               flips[i].status = "returned"
        /\ i \in Analyzed =>
               LET l == flips[i].loc
                   r == flips[i].res
               IN  /\ r.score \in I32_MIN..I32_MAX
                   /\ l.roi_score \in I32_MIN..I32_MAX
                   /\ (l.roi_score <= I32_MAX - 1000 /\ l.roi_score >= I32_MIN + 1000) =>
                          r.score = l.roi_score + OtherSubScores(l)
                   /\ l.roi_score > I32_MAX - 1000 => r.score >= l.roi_score - 205
                   /\ l.roi_score < I32_MIN + 1000 => r.score <= l.roi_score + 235
                   /\ (r.roi.n \div r.roi.d) >= 1073741824 => l.roi_score = I32_MAX

\* buy = 1 with a sell of 20,000,000: roi_score is clamped and the next
\* addition would leave the range
ScoreSaturatesWitness ==
    \E i \in Analyzed :
        /\ flips[i].res.buy = 1
        /\ flips[i].loc.roi_score = I32_MAX
        /\ flips[i].loc.volume_score > 0
        /\ flips[i].res.score > I32_MAX - 205

\* C23: the crash penalty is chosen by priority: -80 whenever
\* recent_trend_crash holds - the mean of the recent chronological window
\* is below 0.82 x the overall Q75, or the window has at least 6 points and
\* the mean of its second half is below 0.90 x that of its first half -
\* otherwise -50 when price_crashed, otherwise -30 when price_spiked,
\* otherwise 0; exactly one of the four applies, and it is added to the
\* score once.  For an empty window the recent median stands for the mean.
\* a / b < q iff (a \div b) < q, for integers a, q and b > 0.
CrashPenaltyByPriority ==
    \A i \in Analyzed :
        LET s == stats[i]
            l == flips[i].loc
            w == s.recent_prices_chrono
            om == quantile(s.prices, 50)
            oq75 == quantile(s.prices, 75)
            rm == IF s.recent_prices = <<>> THEN om ELSE quantile(s.recent_prices, 50)
            mid == Len(w) \div 2
            first == SumSeq(SubSeq(w, 1, mid))
            second == SumSeq(SubSeq(w, mid + 1, Len(w)))
            below_q75 == IF w = <<>> THEN (50 * rm) \div 41 < oq75
                         ELSE (50 * SumSeq(w)) \div (41 * Len(w)) < oq75
            falling == Len(w) >= 6 /\ 10 * second * mid < 9 * first * (Len(w) - mid)
            rtc == below_q75 \/ falling
            crashed == 5 * rm < 4 * om \/ 20 * rm < 13 * oq75
            spiked == 4 * rm > 5 * om
        IN  /\ l.crash_penalty \in {-80, -50, -30, 0}
            /\ l.crash_penalty = -80 <=> rtc
            /\ l.crash_penalty = -50 <=> (~rtc /\ crashed)
            /\ l.crash_penalty = -30 <=> (~rtc /\ ~crashed /\ spiked)
            /\ l.crash_penalty = 0 <=> (~rtc /\ ~crashed /\ ~spiked)
            /\ (l.roi_score <= I32_MAX - 1000 /\ l.roi_score >= I32_MIN + 1000) =>
                   flips[i].res.score - l.crash_penalty =
                       l.roi_score + l.volume_score + l.profit_score
                       + l.volatility_score + l.reliability_score
                       + l.spread_penalty + l.trend_score + l.outlier_penalty

\* a falling window of 12 points whose median is also below 0.80 x the
\* overall median: both signals hold and the penalty is -80
CrashPenaltyByPriorityWitness ==
    \E i \in Analyzed :
        /\ flips[i].loc.recent_trend_crash
        /\ flips[i].loc.price_crashed
        /\ Len(stats[i].recent_prices_chrono) >= 6
        /\ stats[i].recent_prices_chrono[1] > stats[i].recent_prices_chrono[2]
        /\ flips[i].loc.crash_penalty = -80

\* C25: for every result of analyze on non-empty prices without a negative
\* price, buy <= sell and the gross spread sell - buy is not negative; with
\* a tax rate of 0 the net profit is then not negative and the tier is not
\* CRASH.  buy <= sell holds for every result on non-empty prices.
BuyNotAboveSell ==
    \A i \in DOMAIN flips :
        /\ i \in Analyzed => flips[i].res.buy <= flips[i].res.sell
        /\ (stats[i].prices # <<>> /\ NonNegativeSeries(stats[i])) =>
               /\ flips[i].status = "returned"
               /\ flips[i].res.buy <= flips[i].res.sell
               /\ flips[i].loc.gross >= 0
               /\ flips[i].loc.gross = flips[i].res.sell - flips[i].res.buy
               /\ tax = 0 =>
                      /\ flips[i].loc.net.w >= 0
                      /\ flips[i].res.profit >= 0
                      /\ flips[i].res.tier # "CRASH"

\* prices that are not given in ascending order, no tax: buy is below sell
BuyNotAboveSellWitness ==
    \E i \in Analyzed :
        /\ ~IsSorted(stats[i].prices)
        /\ NonNegativeSeries(stats[i])
        /\ flips[i].loc.series = "all"
        /\ tax = 0
        /\ flips[i].res.buy < flips[i].res.sell
        /\ flips[i].res.profit > 0
        /\ flips[i].res.tier # "CRASH"

-----------------------------------------------------------------------------
(* Properties of build_stats followed by analyze (Spec)                    *)

\* the observations of the item flips[i] is about
ObsOf(i) == records_of(snaps, stats[i].item_id)

SteadyAt(recs, p) == \A j \in DOMAIN recs : recs[j].price = p

\* C7: an item observed at one positive price p throughout, analyzed at a
\* tax above 0, gets buy = p, sell = p, net = -(p * tax) < 0 and tier
\* CRASH; 20 observations at 100 with volume 1000 and tax 0.02 give
\* buy 100, sell 100, profit -2, tier CRASH.
SteadyPriceIsCrash ==
    \A i \in DOMAIN flips :
        LET recs == ObsOf(i)
            p == recs[1].price
        IN  (SteadyAt(recs, p) /\ p > 0 /\ tax > 0) =>
                /\ flips[i].status = "returned"
                /\ flips[i].res.buy = p
                /\ flips[i].res.sell = p
                /\ 100 * flips[i].loc.net.w + flips[i].loc.net.f = -(p * tax)
                /\ flips[i].res.tier = "CRASH"
                /\ (Len(recs) = 20 /\ p = 100 /\ tax = 2
                        /\ \A j \in DOMAIN recs : recs[j].volume = 1000) =>
                       flips[i].res.profit = -2

\* the scenario: 20 observations at 100, volume 1000, tax 2 percent
SteadyPriceIsCrashWitness ==
    \E i \in DOMAIN flips :
        /\ flips[i].status = "returned"
        /\ Len(ObsOf(i)) = 20
        /\ SteadyAt(ObsOf(i), 100)
        /\ \A j \in DOMAIN ObsOf(i) : ObsOf(i)[j].volume = 1000
        /\ tax = 2
        /\ flips[i].res.buy = 100
        /\ flips[i].res.sell = 100
        /\ flips[i].res.profit = -2
        /\ flips[i].res.tier = "CRASH"

\* C10, as stated: build_stats and analyze always return a value; no call
\* ends in a panic.
NoHardFailure ==
    /\ pc # "panicked"
    /\ \A i \in DOMAIN flips : flips[i].status = "returned"

\* the last k prices of the records, in their order
LastPrices(recs, k) == [j \in 1..k |-> recs[Len(recs) - k + j].price]

Min(a, b) == IF a <= b THEN a ELSE b

\* C15, as stated: current_price is the price of the item's latest
\* observation, prev_price that of the one before it, or current_price when
\* there is one observation only.
CurrentIsLatestPrice ==
    \A i \in DOMAIN stats :
        LET recs == ObsOf(i)
            n == Len(recs)
        IN  /\ stats[i].current_price = recs[n].price
            /\ stats[i].prev_price =
                   IF n > 1 THEN recs[n - 1].price ELSE stats[i].current_price

\* C16: prices is sorted ascending, its length is data_points and the
\* number of observations of the item, and recent_prices has at most
\* min(data_points, 14) elements.
AllPricesSortedAndCounted ==
    \A i \in DOMAIN stats :
        /\ IsSorted(stats[i].prices)
        /\ Len(stats[i].prices) = stats[i].data_points
        /\ stats[i].data_points = Len(ObsOf(i))
        /\ Len(stats[i].recent_prices) <= Min(stats[i].data_points, 14)

\* an item of more than 14 observations whose prices fall over time
AllPricesSortedAndCountedWitness ==
    \E i \in DOMAIN stats :
        /\ Len(ObsOf(i)) > 14
        /\ ObsOf(i)[1].price > ObsOf(i)[2].price
        /\ stats[i].prices[1] < ObsOf(i)[1].price
        /\ Len(stats[i].recent_prices) = 14

\* the number of times x occurs in v
Count(v, x) == Cardinality({j \in DOMAIN v : v[j] = x})

\* C17: recent_prices_chrono holds the prices of the last 14 observations
\* of the item (of all when there are fewer) in their order, and
\* recent_prices is its ascending permutation.
RecentWindow ==
    \A i \in DOMAIN stats :
        LET recs == ObsOf(i)
            chrono == stats[i].recent_prices_chrono
            recent == stats[i].recent_prices
        IN  /\ chrono = LastPrices(recs, Min(Len(recs), 14))
            /\ IsSorted(recent)
            /\ Len(recent) = Len(chrono)
            /\ \A j \in DOMAIN chrono : Count(recent, chrono[j]) = Count(chrono, chrono[j])

\* more than 14 observations, falling prices: the window is cut and resorted
RecentWindowWitness ==
    \E i \in DOMAIN stats :
        /\ Len(ObsOf(i)) > 14
        /\ Len(stats[i].recent_prices_chrono) = 14
        /\ stats[i].recent_prices_chrono[1] > stats[i].recent_prices_chrono[14]
        /\ stats[i].recent_prices # stats[i].recent_prices_chrono

\* C19, as stated: price_trend is positive when the prices of the item
\* rise over time and negative when they fall: strictly decreasing
\* observations (3 or more) give a negative trend, strictly increasing ones
\* a positive trend.
TrendSignFollowsTime ==
    \A i \in DOMAIN stats :
        LET recs == ObsOf(i)
            falling == \A j \in 1..(Len(recs) - 1) : recs[j].price > recs[j + 1].price
            rising == \A j \in 1..(Len(recs) - 1) : recs[j].price < recs[j + 1].price
        IN  Len(recs) >= 3 =>
                /\ falling => stats[i].price_trend.n < 0
                /\ rising => stats[i].price_trend.n > 0

\* the positions of the observations of item id in the input
Positions(id) == {j \in DOMAIN snaps : snaps[j].item_id = id}

\* C21: build_stats partitions the observations by item_id and returns
\* exactly one ItemStats for every item_id that has an observation: none is
\* missing, none appears twice, none has zero data points, and the prices
\* of each are those of the observations of its item, each counted once.
PartitionByItem ==
    pc # "start" =>
        /\ \A j \in DOMAIN snaps :
               \E i \in DOMAIN stats : stats[i].item_id = snaps[j].item_id
        /\ \A i, k \in DOMAIN stats :
               i # k => stats[i].item_id # stats[k].item_id
        /\ \A i \in DOMAIN stats :
               LET own == Positions(stats[i].item_id)
               IN  /\ stats[i].data_points >= 1
                   /\ stats[i].data_points = Cardinality(own)
                   /\ \A j \in own :
                          Count(stats[i].prices, snaps[j].price) =
                              Cardinality({k \in own : snaps[k].price = snaps[j].price})

\* three items whose observations alternate, each with its own count
PartitionByItemWitness ==
    /\ pc # "start"
    /\ Len(stats) = 3
    /\ snaps[1].item_id # snaps[2].item_id
    /\ snaps[2].item_id # snaps[3].item_id
    /\ {stats[i].data_points : i \in DOMAIN stats} = {2, 3, 10}

\* the observations of item id alone, in their order
Own(id) == SelectSeq(snaps, LAMBDA x : x.item_id = id)

\* another input with the same observations of item id in the same order:
\* those of the other items are changed in price and volume, reversed and
\* moved between them, and an item that was not in the input is added
Perturbed(id) ==
    LET others == SelectSeq(snaps, LAMBDA x : x.item_id # id)
        changed == [j \in DOMAIN others |->
                       [others[j] EXCEPT !.price = 77, !.volume = 5]]
        added == [item_id |-> id + 10, record_date |-> 0, price |-> 5, volume |-> 5]
    IN  Interleave(Reverse(changed) \o <<added>>, Own(id))

\* the ItemStats of item id in build_stats(data), item id visited last
StatsOf(data, id) ==
    LET o == CHOOSE o \in Orders(item_ids(data)) : o[Len(o)] = id
    IN  build_stats(data, o)[Len(o)]

\* C22: items are independent.  The ItemStats and the FlipResult computed
\* for an item are those computed from the item's own observations alone
\* and the tax rate, and those computed from an input in which the
\* observations of the other items are removed, changed, re-interleaved or
\* added to: two inputs that agree on the observations of the item, in
\* their relative order, give the item the same results.
ItemsIndependent ==
    \A i \in DOMAIN stats :
        LET id == stats[i].item_id
            alone == StatsOf(Own(id), id)
            other == StatsOf(Perturbed(id), id)
        IN  /\ stats[i] = alone
            /\ stats[i] = other
            /\ i \in DOMAIN flips =>
                   /\ flips[i] = analyze(alone, tax, overflow_checks)
                   /\ flips[i] = analyze(other, tax, overflow_checks)

\* two items whose observations alternate and whose results differ, both
\* analyzed
ItemsIndependentWitness ==
    /\ Len(flips) = 2
    /\ snaps[1].item_id # snaps[2].item_id
    /\ stats[1].prices # stats[2].prices
    /\ flips[1].status = "returned"
    /\ flips[2].status = "returned"
    /\ flips[1].res.tier # flips[2].res.tier

\* C26: an item with fewer than 10 observations is priced from its full
\* price series: build_stats gives it outliers_removed = 0 and fewer than
\* 10 recent prices; analyze, when it returns, uses neither the recent nor
\* the filtered series, takes buy and sell from the P10 and P90 of all its
\* prices, applies outlier penalty 0 and writes no Crashed or Spiked
\* marker, also when price_crashed or price_spiked holds.
FewObservationsUseAllPrices ==
    \A i \in DOMAIN stats :
        LET own == Own(stats[i].item_id)
            all == Sort([j \in DOMAIN own |-> own[j].price])
        IN  Len(own) < 10 =>
                /\ stats[i].outliers_removed = 0
                /\ Len(stats[i].recent_prices) < 10
                /\ (i \in DOMAIN flips /\ flips[i].status = "returned") =>
                       LET l == flips[i].loc
                           r == flips[i].res
                       IN  /\ ~l.use_recent
                           /\ ~l.use_filtered
                           /\ l.series = "all"
                           /\ l.prices = all
                           /\ r.buy = all[RoundDiv(10 * (Len(all) - 1), 100) + 1]
                           /\ r.sell = all[RoundDiv(90 * (Len(all) - 1), 100) + 1]
                           /\ l.outlier_penalty = 0
                           /\ r.notes[1] \notin {"Crashed", "Spiked"}
                           /\ r.notes[2] = 0

\* nine observations, the last far above the others: the median is below
\* 0.65 x the Q75, so price_crashed holds, and ten prices like these would
\* lose the last to the filter
FewObservationsUseAllPricesWitness ==
    \E i \in DOMAIN flips :
        /\ flips[i].status = "returned"
        /\ Len(Own(stats[i].item_id)) = 9
        /\ flips[i].loc.price_crashed
        /\ ~flips[i].loc.recent_trend_crash
        /\ stats[i].prices[9] = 1000
        /\ flips[i].res.buy = 50
        /\ flips[i].res.sell = 100
        /\ flips[i].res.notes[1] = ""

-----------------------------------------------------------------------------
(* Properties of build_stats on unordered observations (SpecAnyOrder)      *)

\* the records in the order of their record_date
RECURSIVE ByDate(_)
ByDate(recs) ==
    IF recs = <<>> THEN <<>>
    ELSE LET first == CHOOSE j \in DOMAIN recs :
                          \A k \in DOMAIN recs : recs[j].record_date <= recs[k].record_date
         IN  <<recs[first]>> \o
             ByDate(SubSeq(recs, 1, first - 1) \o SubSeq(recs, first + 1, Len(recs)))

-----------------------------------------------------------------------------
(* Properties of the helpers (SpecHelpers)                                 *)

Called(fn) == call # <<>> /\ call.fn = fn

\* C12: quantile returns 0 for an empty sequence, otherwise the element at
\* index round((n - 1) * q), a half rounded away from zero, of the sequence
\* as it is given; on [10, 20, 30, 40, 50] that is 30 for q = 0.5, 10 for
\* q = 0 and 50 for q = 1.  The copies of stats.rs and flips.rs agree.
\* k = round(x) for x >= 0 iff k - 1/2 <= x < k + 1/2.
QuantileNearestRank ==
    Called("quantile") =>
        LET v == call.v
            x200 == 2 * (Len(v) - 1) * call.pct
        IN  /\ call.flips_ret = call.stats_ret
            /\ v = <<>> => call.flips_ret = 0
            /\ v # <<>> =>
                   \E k \in 0..(Len(v) - 1) :
                       /\ 200 * k - 100 <= x200
                       /\ x200 < 200 * k + 100
                       /\ call.flips_ret = v[k + 1]
            /\ v = <<10, 20, 30, 40, 50>> =>
                   /\ call.pct = 50 => call.flips_ret = 30
                   /\ call.pct = 0 => call.flips_ret = 10
                   /\ call.pct = 100 => call.flips_ret = 50

\* an index that falls on a half: (4 - 1) * 0.5 = 1.5 gives index 2
QuantileNearestRankWitness ==
    /\ Called("quantile")
    /\ call.v = <<10, 20, 30, 40>>
    /\ call.pct = 50
    /\ call.flips_ret = 30
    /\ call.stats_ret = 30

\* C13, as stated: remove_outliers never returns fewer than ceil(0.7 * n)
\* of n prices; a filter that would keep fewer gives back the input with
\* 0 removed.
OutliersKeepSeventyPercent ==
    Called("remove_outliers") =>
        /\ 10 * Len(call.ret.filtered) >= 7 * Len(call.prices)
        /\ call.ret.removed = Len(call.prices) - Len(call.ret.filtered)
        /\ call.ret.removed = 0 => call.ret.filtered = call.prices

\* C14: on fewer than 10 prices remove_outliers returns the input and 0.
OutliersNeedTenPrices ==
    (Called("remove_outliers") /\ Len(call.prices) < 10) =>
        /\ call.ret.filtered = call.prices
        /\ call.ret.removed = 0

\* nine prices, the last far above the others
OutliersNeedTenPricesWitness ==
    /\ Called("remove_outliers")
    /\ call.prices = <<1, 1, 1, 1, 1, 1, 1, 1, 100>>
    /\ call.ret.filtered = call.prices
    /\ call.ret.removed = 0

\* sum of f(i) over the 0-based indices i of v
RECURSIVE IndexSum(_, _, _)
IndexSum(v, f(_, _), i) ==
    IF i > Len(v) THEN 0 ELSE f(i - 1, v[i]) + IndexSum(v, f, i + 1)

\* C20: calculate_trend returns the least-squares slope of the values
\* against their 0-based index x: slope * (m * Sxx - Sx^2) = m * Sxy - Sx * Sy;
\* it is 1 on [1, 2, 3, 4, 5] and on every sequence of step 1, 0 on a
\* constant sequence and 0 on fewer than 2 points; build_stats sets
\* price_trend to 0 when the item has fewer than 3 prices.
TrendIsLeastSquaresSlope ==
    /\ Called("calculate_trend") =>
           LET v == call.prices
               m == Len(v)
               Sx == IndexSum(v, LAMBDA x, y : x, 1)
               Sy == IndexSum(v, LAMBDA x, y : y, 1)
               Sxx == IndexSum(v, LAMBDA x, y : x * x, 1)
               Sxy == IndexSum(v, LAMBDA x, y : x * y, 1)
           IN  /\ call.ret.d > 0
               /\ m < 2 => call.ret.n = 0
               /\ m >= 2 =>
                      call.ret.n * (m * Sxx - Sx * Sx) = call.ret.d * (m * Sxy - Sx * Sy)
               /\ (m >= 2 /\ \A j \in 1..(m - 1) : v[j + 1] = v[j] + 1) =>
                      call.ret.n = call.ret.d
               /\ (\A j \in 1..(m - 1) : v[j + 1] = v[j]) => call.ret.n = 0
    /\ (Called("price_trend") /\ Len(call.prices) < 3) => call.ret.n = 0

\* the slope of [1, 2, 3, 4, 5] is 1
TrendIsLeastSquaresSlopeWitness ==
    /\ Called("calculate_trend")
    /\ call.prices = <<1, 2, 3, 4, 5>>
    /\ call.ret.n = call.ret.d
    /\ call.ret.n > 0

\* a is b with some elements left out
RECURSIVE IsSubseq(_, _)
IsSubseq(a, b) ==
    IF a = <<>> THEN TRUE
    ELSE IF b = <<>> THEN FALSE
    ELSE IF Head(a) = Head(b) THEN IsSubseq(Tail(a), Tail(b))
    ELSE IsSubseq(a, Tail(b))

\* the prices p with q1 - 1.5 * iqr <= p <= q3 + 1.5 * iqr, q1 and q3 the
\* nearest-rank quartiles of the sorted series
InsideFences(prices) ==
    LET n == Len(prices)
        q1 == prices[((n - 1) + 2) \div 4 + 1]
        q3 == prices[(3 * (n - 1) + 2) \div 4 + 1]
    IN  SelectSeq(prices, LAMBDA p : 2 * p >= 5 * q1 - 3 * q3 /\ 2 * p <= 5 * q3 - 3 * q1)

\* C24: for every result of remove_outliers on sorted prices, and so for
\* every ItemStats of build_stats, filtered_prices is an ascending
\* subsequence of the prices and Len(filtered_prices) + outliers_removed is
\* the number of prices; the result is either the input with 0 removed or
\* exactly the prices inside [Q1 - 1.5 x IQR, Q3 + 1.5 x IQR], bounds
\* included; it is the latter whenever any price was removed and whenever
\* 10 or more prices have at least 70 percent inside, and then it is not
\* empty.
FilteredIsSubsequence ==
    /\ Called("remove_outliers") =>
           LET prices == call.prices
               ret == call.ret
           IN  /\ IsSorted(ret.filtered)
               /\ IsSubseq(ret.filtered, prices)
               /\ Len(ret.filtered) + ret.removed = Len(prices)
               /\ ret.removed >= 0
               /\ prices # <<>> =>
                      /\ ret.filtered # <<>>
                      /\ ret.filtered \in {prices, InsideFences(prices)}
                      /\ ret.removed > 0 => ret.filtered = InsideFences(prices)
                      /\ (Len(prices) >= 10
                              /\ 10 * Len(InsideFences(prices)) >= 7 * Len(prices)) =>
                             ret.filtered = InsideFences(prices)
    /\ Called("build_stats") =>
           \A i \in DOMAIN call.ret :
               LET s == call.ret[i]
               IN  /\ IsSorted(s.filtered_prices)
                   /\ IsSubseq(s.filtered_prices, s.prices)
                   /\ Len(s.filtered_prices) + s.outliers_removed = s.data_points
                   /\ s.data_points = Len(call.data)
                   /\ s.filtered_prices # <<>>
                   /\ s.filtered_prices \in {s.prices, InsideFences(s.prices)}
                   /\ s.outliers_removed > 0 =>
                          s.filtered_prices = InsideFences(s.prices)

\* ten prices, eight of them equal: the quartiles coincide, both fences
\* are the price itself, the eight on the fences are kept and two removed
FilteredIsSubsequenceWitness ==
    /\ Called("remove_outliers")
    /\ Len(call.prices) = 10
    /\ call.ret.removed = 2
    /\ call.ret.filtered = Ramp(8, 100, 0)
    /\ call.prices[1] < 100
    /\ call.prices[10] > 100

-----------------------------------------------------------------------------
(* Properties of the application (SpecApp)                                 *)

\* the row passes the filters of the settings of a
Shown(a, r) ==
    /\ r.qty > 0
    /\ r.avg_volume >= 500
    /\ r.roi.n <= 150 * r.roi.d
    /\ r.buy >= 100
    /\ (a.selected_tier = {} \/ r.tier \in a.selected_tier)
    /\ (a.show_bad \/ r.score > 0)

\* C27: a scan whose snapshot load fails leaves the application state
\* unchanged: items, filtered_items and loaded keep their values, so loaded
\* stays false after a failed first scan and a failed rescan keeps the
\* previous results.  Only a successful scan replaces items and sets
\* loaded: it stores one row per item of the scan, re-applies the filters
\* and sets loaded to true.
FailedScanKeepsState ==
    [][/\ call'.result = "Err" =>
              /\ app'.items = app.items
              /\ app'.filtered_items = app.filtered_items
              /\ app'.loaded = app.loaded
       /\ (app'.items # app.items \/ app'.loaded # app.loaded) =>
              call'.result = "Ok"
       /\ call'.result = "Ok" =>
              /\ app'.loaded
              /\ Len(app'.items) = Len(stats')
              /\ \A i \in DOMAIN stats' :
                     /\ app'.items[i].name = stats'[i].item_id
                     /\ app'.items[i].score = flips'[i].res.score
                     /\ app'.items[i].tier = flips'[i].res.tier
              /\ {app'.filtered_items[i] : i \in DOMAIN app'.filtered_items} =
                     {app'.items[i] : i \in {k \in DOMAIN app'.items :
                                                 Shown(app', app'.items[k])}}
      ]_vars

\* a rescan has failed in an app that shows the two items of an earlier scan
FailedScanKeepsStateWitness ==
    /\ call # <<>>
    /\ call.fn = "scan"
    /\ call.result = "Err"
    /\ app.loaded
    /\ Len(app.items) = 2
    /\ app.filtered_items # <<>>
    /\ Len(app.filtered_items) < Len(app.items)

====
